---- MODULE Spec2Model ----
(***************************************************************************)
(* Model of cpu_load.py: the lifecycle coordinator main(), its signal      *)
(* handler, and the duty-cycle workers cpu_load_worker() it launches.      *)
(*                                                                         *)
(* Time.  The coordinator's timed waits (time.sleep(duration),             *)
(* time.sleep(0.5), p.join(timeout=2)) are counted down by Tick in units   *)
(* of 0.5 s.  A wait returns no earlier than its timer reaching 0; every   *)
(* other step of the coordinator takes no modelled time.  Workers are      *)
(* separate processes scheduled by the operating system: their steps       *)
(* interleave freely with the coordinator's and with the passage of time.  *)
(*                                                                         *)
(* Signals.  SIGINT/SIGTERM deliveries to the coordinator are modelled     *)
(* from the point where both handlers are installed (lines 122-123).  A    *)
(* Python-level handler that returns normally does not interrupt a         *)
(* blocking time.sleep or join: the call resumes with the remaining time.  *)
(***************************************************************************)
EXTENDS Integers, Sequences, FiniteSets

\* ---- bounds of the model -------------------------------------------------
MaxCores == 2          \* largest value of the -c/--cores option
CpuCount == 1          \* multiprocessing.cpu_count() of the host
MaxDuration == 1       \* largest value of the -d/--duration option (ticks)
MaxSignals == 2        \* signals delivered to the coordinator in one run

\* ---- program constants ---------------------------------------------------
cycle_time == 100      \* line 57: 0.1 s, in milliseconds
JoinTimeout == 4       \* line 152: 2 s, in ticks of 0.5 s
PollInterval == 1      \* line 145: 0.5 s, in ticks of 0.5 s

\* ---- inputs --------------------------------------------------------------
\* An optional argparse value is <<>> (None, option omitted) or <<v>>.
Percentages == {-5, 0, 50, 100, 150}
CoresOptions == {<<>>} \cup {<<c>> : c \in -1..MaxCores}
DurationOptions == {<<>>} \cup {<<d>> : d \in -1..MaxDuration}
StartMethods == {"fork", "spawn"}

Max(a, b) == IF a >= b THEN a ELSE b
MaxWorkers == Max(MaxCores, CpuCount)
Workers == 1..MaxWorkers

VARIABLES
  args,              \* parsed command line: percentage, cores, duration
  startMethod,       \* multiprocessing start method, once it has shown
  pc,                \* position of main()
  num_cores,         \* line 103
  eventCreated,      \* line 115 has run
  handlersInstalled, \* lines 122-123 have run
  stop_event,        \* the shared multiprocessing.Event
  processes,         \* line 126: list of started workers
  i,                 \* index of the worker the join loop is at (line 151)
  wstate,            \* position of each worker process
  termPending,       \* workers with an undelivered SIGTERM from terminate()
  timer,             \* ticks left of the coordinator's current timed wait
  exitStatus,        \* -1 while running, else the process exit status
  errReported,       \* line 99 printed the configuration error
  sigCount,          \* signal_handler runs in the coordinator (line 119)
  sigInSleep,        \* a handler ran during time.sleep(duration), time left
  joinedEnded,       \* workers that had ended when their join returned
  joinTimedOut,      \* workers whose join returned with the 2 s used up
  aliveAtCheck,      \* workers for which p.is_alive() returned True
  termSent,          \* workers p.terminate() was called on
  wlocals,           \* each worker's target_percent, busy_time, sleep_time
  launchedAfterSet,  \* workers started with the flag already set
  sleptTicks,        \* ticks spent in time.sleep(args.duration), line 140
  drainTicks         \* ticks spent in p.join(timeout=2), line 152

vars == <<args, startMethod, pc, num_cores, eventCreated, handlersInstalled,
          stop_event, processes, i, wstate, termPending, timer, exitStatus,
          errReported, sigCount, sigInSleep, joinedEnded, joinTimedOut,
          aliveAtCheck, termSent, wlocals, launchedAfterSet, sleptTicks,
          drainTicks>>

coordVars == <<pc, num_cores, eventCreated, handlersInstalled, processes, i,
               timer, exitStatus, errReported, joinedEnded, joinTimedOut,
               aliveAtCheck, termSent>>

\* ---- helpers -------------------------------------------------------------
\* Python truthiness of an optional numeric argument: None and 0 are false.
Truthy(opt) == opt # <<>> /\ opt[1] # 0

\* line 98: 0 <= args.percentage <= 100
ValidPercentageLowOnly(p) == 0 <= p
ValidPercentage(p) == 0 <= p /\ p <= 100

\* line 103: args.cores if args.cores else multiprocessing.cpu_count()
ResolveCoresHostOnly(cores) == CpuCount
ResolveCores(cores) == IF Truthy(cores) THEN cores[1] ELSE CpuCount

\* lines 59-60, in milliseconds
busy_time_unscaled(p) == cycle_time * p
busy_time(p) == (cycle_time * p) \div 100
sleep_time(p) == cycle_time - busy_time(p)

Ended == {"exited", "killed"}

\* line 153: p.is_alive()
IsAliveAlways(w) == TRUE
IsAlive(w) == wstate[w] \notin Ended

Terminal == {"exit_error", "crashed", "done"}

\* the locals of a worker that has not been started
NoLocals == [target_percent |-> 0, busy_time |-> 0, sleep_time |-> 0]

\* the state when parse_args() has returned one of the command lines
InitWith(commandLines) ==
  /\ args \in commandLines
  /\ startMethod = "undetermined"
  /\ pc = "validate"
  /\ num_cores = 0
  /\ eventCreated = FALSE
  /\ handlersInstalled = FALSE
  /\ stop_event = FALSE
  /\ processes = <<>>
  /\ i = 0
  /\ wstate = [w \in Workers |-> "unborn"]
  /\ termPending = {}
  /\ timer = 0
  /\ exitStatus = -1
  /\ errReported = FALSE
  /\ sigCount = 0
  /\ sigInSleep = FALSE
  /\ joinedEnded = {}
  /\ joinTimedOut = {}
  /\ aliveAtCheck = {}
  /\ termSent = {}
  /\ wlocals = [w \in Workers |-> NoLocals]
  /\ launchedAfterSet = {}
  /\ sleptTicks = 0
  /\ drainTicks = 0

Init ==
  InitWith([percentage : Percentages, cores : CoresOptions,
            duration : DurationOptions])

\* ---- main() --------------------------------------------------------------
\* lines 97-100
Validate ==
  /\ pc = "validate"
  /\ IF ValidPercentage(args.percentage)
       THEN /\ pc' = "resolve"
            /\ UNCHANGED <<exitStatus, errReported>>
       ELSE /\ pc' = "exit_error"
            /\ errReported' = TRUE
            /\ exitStatus' = 1
  /\ UNCHANGED <<args, startMethod, num_cores, eventCreated, handlersInstalled,
                 stop_event, processes, i, wstate, termPending, timer,
                 sigCount, sigInSleep, joinedEnded, joinTimedOut,
                 aliveAtCheck, termSent,
                 wlocals, launchedAfterSet, sleptTicks, drainTicks>>

\* lines 102-112
Resolve ==
  /\ pc = "resolve"
  /\ num_cores' = ResolveCores(args.cores)
  /\ pc' = "create_event"
  /\ UNCHANGED <<args, startMethod, eventCreated, handlersInstalled,
                 stop_event, processes, i, wstate, termPending, timer,
                 exitStatus, errReported, sigCount, sigInSleep, joinedEnded,
                 joinTimedOut,
                 aliveAtCheck, termSent,
                 wlocals, launchedAfterSet, sleptTicks, drainTicks>>

\* line 115
CreateEvent ==
  /\ pc = "create_event"
  /\ eventCreated' = TRUE
  /\ stop_event' = FALSE
  /\ pc' = "install_handlers"
  /\ UNCHANGED <<args, startMethod, num_cores, handlersInstalled, processes,
                 i, wstate, termPending, timer, exitStatus, errReported,
                 sigCount, sigInSleep, joinedEnded, joinTimedOut,
                 aliveAtCheck, termSent,
                 wlocals, launchedAfterSet, sleptTicks, drainTicks>>

\* lines 122-123
InstallHandlers ==
  /\ pc = "install_handlers"
  /\ handlersInstalled' = TRUE
  /\ pc' = "launch"
  /\ UNCHANGED <<args, startMethod, num_cores, eventCreated, stop_event,
                 processes, i, wstate, termPending, timer, exitStatus,
                 errReported, sigCount, sigInSleep, joinedEnded,
                 joinTimedOut, aliveAtCheck,
                 termSent,
                 wlocals, launchedAfterSet, sleptTicks, drainTicks>>

\* lines 127-133: one iteration of  for i in range(num_cores)
Launch ==
  /\ pc = "launch"
  /\ Len(processes) < num_cores
  /\ LET w == Len(processes) + 1 IN
       /\ wstate' = [wstate EXCEPT ![w] = "start"]
       /\ wlocals' = [wlocals EXCEPT
                        ![w].target_percent = args.percentage]
       /\ processes' = Append(processes, w)
       /\ launchedAfterSet' = IF stop_event
                                THEN launchedAfterSet \cup {w}
                                ELSE launchedAfterSet
  /\ UNCHANGED <<args, startMethod, pc, num_cores, eventCreated,
                 handlersInstalled, stop_event, i, termPending, timer,
                 exitStatus, errReported, sigCount, sigInSleep, joinedEnded,
                 joinTimedOut, aliveAtCheck, termSent, sleptTicks,
                 drainTicks>>

\* line 127 (range exhausted) and line 135
LaunchDoneOnFlag ==
  /\ pc = "launch"
  /\ ~(Len(processes) < num_cores) \/ stop_event
  /\ pc' = "running"
  /\ UNCHANGED <<args, startMethod, num_cores, eventCreated,
                 handlersInstalled, stop_event, processes, i, wstate,
                 termPending, timer, exitStatus, errReported, sigCount,
                 sigInSleep, joinedEnded, joinTimedOut, aliveAtCheck,
                 termSent, wlocals, launchedAfterSet, sleptTicks,
                 drainTicks>>

LaunchDone ==
  /\ pc = "launch"
  /\ ~(Len(processes) < num_cores)
  /\ pc' = "running"
  /\ UNCHANGED <<args, startMethod, num_cores, eventCreated,
                 handlersInstalled, stop_event, processes, i, wstate,
                 termPending, timer, exitStatus, errReported, sigCount,
                 sigInSleep, joinedEnded, joinTimedOut, aliveAtCheck,
                 termSent,
                 wlocals, launchedAfterSet, sleptTicks, drainTicks>>

\* lines 138-140 and 142-144: the branch on args.duration.  time.sleep
\* raises ValueError for a negative length; only KeyboardInterrupt is caught
\* (line 146), so the exception leaves main().
BeginWait ==
  /\ pc = "running"
  /\ IF Truthy(args.duration)
       THEN IF args.duration[1] < 0
              THEN /\ pc' = "crashed"
                   /\ exitStatus' = 1
                   /\ timer' = timer
              ELSE /\ pc' = "sleep_duration"
                   /\ timer' = args.duration[1]
                   /\ exitStatus' = exitStatus
       ELSE /\ pc' = "poll_check"
            /\ UNCHANGED <<timer, exitStatus>>
  /\ UNCHANGED <<args, startMethod, num_cores, eventCreated,
                 handlersInstalled, stop_event, processes, i, wstate,
                 termPending, errReported, sigCount, sigInSleep, joinedEnded,
                 joinTimedOut,
                 aliveAtCheck, termSent,
                 wlocals, launchedAfterSet, sleptTicks, drainTicks>>

\* line 140 returns, line 141: stop_event.set()
SleepDone ==
  /\ pc = "sleep_duration"
  /\ timer = 0
  /\ stop_event' = TRUE
  /\ pc' = "stop_all"
  /\ UNCHANGED <<args, startMethod, num_cores, eventCreated,
                 handlersInstalled, processes, i, wstate, termPending, timer,
                 exitStatus, errReported, sigCount, sigInSleep, joinedEnded,
                 joinTimedOut,
                 aliveAtCheck, termSent,
                 wlocals, launchedAfterSet, sleptTicks, drainTicks>>

\* line 144: while not stop_event.is_set()
PollCheck ==
  /\ pc = "poll_check"
  /\ IF stop_event
       THEN pc' = "stop_all" /\ timer' = timer
       ELSE pc' = "poll_sleep" /\ timer' = PollInterval
  /\ UNCHANGED <<args, startMethod, num_cores, eventCreated,
                 handlersInstalled, stop_event, processes, i, wstate,
                 termPending, exitStatus, errReported, sigCount, sigInSleep,
                 joinedEnded, joinTimedOut, aliveAtCheck, termSent,
                 wlocals, launchedAfterSet, sleptTicks, drainTicks>>

\* line 145 returns
PollWake ==
  /\ pc = "poll_sleep"
  /\ timer = 0
  /\ pc' = "poll_check"
  /\ UNCHANGED <<args, startMethod, num_cores, eventCreated,
                 handlersInstalled, stop_event, processes, i, wstate,
                 termPending, timer, exitStatus, errReported, sigCount,
                 sigInSleep, joinedEnded, joinTimedOut, aliveAtCheck,
                 termSent,
                 wlocals, launchedAfterSet, sleptTicks, drainTicks>>

\* line 151: the for loop moves to worker k, or is exhausted (line 156)
GotoWorkerSkip(k) ==
  IF k + 1 <= Len(processes)
    THEN /\ i' = k + 1
         /\ pc' = "join"
         /\ timer' = JoinTimeout
         /\ exitStatus' = exitStatus
    ELSE /\ i' = Len(processes) + 1
         /\ pc' = "done"
         /\ timer' = 0
         /\ exitStatus' = 0

GotoWorker(k) ==
  IF k <= Len(processes)
    THEN /\ i' = k
         /\ pc' = "join"
         /\ timer' = JoinTimeout
         /\ exitStatus' = exitStatus
    ELSE /\ i' = k
         /\ pc' = "done"
         /\ timer' = 0
         /\ exitStatus' = 0

\* line 150, then line 151 (first iteration) or line 156
StopAll ==
  /\ pc = "stop_all"
  /\ stop_event' = TRUE
  /\ GotoWorker(1)
  /\ UNCHANGED <<args, startMethod, num_cores, eventCreated,
                 handlersInstalled, processes, wstate, termPending,
                 errReported, sigCount, sigInSleep, joinedEnded,
                 joinTimedOut, aliveAtCheck,
                 termSent,
                 wlocals, launchedAfterSet, sleptTicks, drainTicks>>

\* line 152: p.join(timeout=2) returns: the worker has ended, or 2 s passed
JoinReturn ==
  /\ pc = "join"
  /\ wstate[processes[i]] \in Ended \/ timer = 0
  /\ joinedEnded' = IF wstate[processes[i]] \in Ended
                      THEN joinedEnded \cup {processes[i]} ELSE joinedEnded
  /\ joinTimedOut' = IF timer = 0
                       THEN joinTimedOut \cup {processes[i]} ELSE joinTimedOut
  /\ timer' = 0
  /\ pc' = "alive_check"
  /\ UNCHANGED <<args, startMethod, num_cores, eventCreated,
                 handlersInstalled, stop_event, processes, i, wstate,
                 termPending, exitStatus, errReported, sigCount, sigInSleep,
                 aliveAtCheck, termSent,
                 wlocals, launchedAfterSet, sleptTicks, drainTicks>>

\* line 153: if p.is_alive(); when false, on to the next worker or line 156
AliveCheck ==
  /\ pc = "alive_check"
  /\ IF IsAlive(processes[i])
       THEN /\ aliveAtCheck' = aliveAtCheck \cup {processes[i]}
            /\ pc' = "terminate"
            /\ UNCHANGED <<i, timer, exitStatus>>
       ELSE /\ GotoWorker(i + 1)
            /\ aliveAtCheck' = aliveAtCheck
  /\ UNCHANGED <<args, startMethod, num_cores, eventCreated,
                 handlersInstalled, stop_event, processes, wstate,
                 termPending, errReported, sigCount, sigInSleep, joinedEnded,
                 joinTimedOut,
                 termSent,
                 wlocals, launchedAfterSet, sleptTicks, drainTicks>>

\* line 154: p.terminate() sends SIGTERM and returns without waiting
Terminate ==
  /\ pc = "terminate"
  /\ termSent' = termSent \cup {processes[i]}
  /\ termPending' = IF wstate[processes[i]] \in Ended
                      THEN termPending ELSE termPending \cup {processes[i]}
  /\ GotoWorker(i + 1)
  /\ UNCHANGED <<args, startMethod, num_cores, eventCreated,
                 handlersInstalled, stop_event, processes, wstate,
                 errReported, sigCount, sigInSleep, joinedEnded,
                 joinTimedOut, aliveAtCheck,
                 wlocals, launchedAfterSet, sleptTicks, drainTicks>>

\* ---- signal_handler ------------------------------------------------------
\* lines 118-120, run in the coordinator on SIGINT or SIGTERM
signal_handler_toggle ==
  /\ handlersInstalled
  /\ pc \notin Terminal
  /\ sigCount < MaxSignals
  /\ sigCount' = sigCount + 1
  /\ stop_event' = ~stop_event
  /\ sigInSleep' = (sigInSleep \/ (pc = "sleep_duration" /\ timer > 0))
  /\ UNCHANGED <<args, startMethod, coordVars, wstate, termPending,
                 wlocals, launchedAfterSet, sleptTicks, drainTicks>>

\* the default SIGINT disposition: KeyboardInterrupt, caught at line 146
signal_handler_raise ==
  /\ handlersInstalled
  /\ pc \notin Terminal
  /\ sigCount < MaxSignals
  /\ sigCount' = sigCount + 1
  /\ stop_event' = TRUE
  /\ sigInSleep' = (sigInSleep \/ (pc = "sleep_duration" /\ timer > 0))
  /\ pc' = IF pc \in {"sleep_duration", "poll_check", "poll_sleep"}
             THEN "stop_all" ELSE "crashed"
  /\ UNCHANGED <<args, startMethod, num_cores, eventCreated,
                 handlersInstalled, processes, i, timer, exitStatus,
                 errReported, joinedEnded, joinTimedOut, aliveAtCheck,
                 termSent, wstate,
                 termPending,
                 wlocals, launchedAfterSet, sleptTicks, drainTicks>>

signal_handler ==
  /\ handlersInstalled
  /\ pc \notin Terminal
  /\ sigCount < MaxSignals
  /\ sigCount' = sigCount + 1
  /\ stop_event' = TRUE
  /\ sigInSleep' = (sigInSleep \/ (pc = "sleep_duration" /\ timer > 0))
  /\ UNCHANGED <<args, startMethod, coordVars, wstate, termPending,
                 wlocals, launchedAfterSet, sleptTicks, drainTicks>>

\* ---- passage of time -----------------------------------------------------
Tick ==
  /\ pc \in {"sleep_duration", "poll_sleep", "join"}
  /\ timer > 0
  /\ timer' = timer - 1
  /\ sleptTicks' = IF pc = "sleep_duration"
                     THEN sleptTicks + 1 ELSE sleptTicks
  /\ drainTicks' = IF pc = "join" THEN drainTicks + 1 ELSE drainTicks
  /\ UNCHANGED <<args, startMethod, pc, num_cores, eventCreated,
                 handlersInstalled, stop_event, processes, i, wstate,
                 termPending, exitStatus, errReported, sigCount, sigInSleep,
                 joinedEnded, joinTimedOut, aliveAtCheck, termSent, wlocals,
                 launchedAfterSet>>

\* ---- cpu_load_worker -----------------------------------------------------
workerFrame == <<args, startMethod, coordVars, sigCount, sigInSleep,
                 launchedAfterSet, sleptTicks, drainTicks>>

\* line 62: while not stop_event.is_set(): leave the loop or begin a cycle
LoopTestInverted == IF stop_event THEN "busy" ELSE "exited"
LoopTestIgnoresFlag == "busy"
LoopTest == IF stop_event THEN "exited" ELSE "busy"

\* lines 57-62: the worker computes its busy/idle split from the percentage
\* it was given and evaluates the loop condition for the first time
WorkerStart(w) ==
  /\ wstate[w] = "start"
  /\ wlocals' = [wlocals EXCEPT
                   ![w].busy_time = busy_time(wlocals[w].target_percent),
                   ![w].sleep_time = sleep_time(wlocals[w].target_percent)]
  /\ wstate' = [wstate EXCEPT ![w] = LoopTest]
  /\ UNCHANGED <<workerFrame, stop_event, termPending>>

\* line 62, after a cycle
WorkerCheck(w) ==
  /\ wstate[w] = "check"
  /\ wstate' = [wstate EXCEPT ![w] = LoopTest]
  /\ UNCHANGED <<workerFrame, stop_event, termPending, wlocals>>

\* lines 64-66 and 69-70: the busy loop.  With busy_time > 0 the workload
\* generator is called until the deadline has passed; with busy_time = 0 the
\* deadline has passed when the loop condition is first evaluated.  Leaving
\* the loop, the worker sleeps if sleep_time > 0 and else is back at line 62.
WorkerBusyAlwaysWorks(w) ==
  /\ wstate[w] = "busy"
  /\ \/ wstate' = [wstate EXCEPT ![w] = "work"]
     \/ wstate' = [wstate EXCEPT ![w] =
                     IF wlocals[w].sleep_time > 0 THEN "sleeping" ELSE "check"]
  /\ UNCHANGED <<workerFrame, stop_event, termPending, wlocals>>

WorkerBusyAlwaysSleeps(w) ==
  /\ wstate[w] = "busy"
  /\ \/ /\ wlocals[w].busy_time > 0
        /\ wstate' = [wstate EXCEPT ![w] = "work"]
     \/ wstate' = [wstate EXCEPT ![w] =
                     IF wlocals[w].sleep_time >= 0 THEN "sleeping" ELSE "check"]
  /\ UNCHANGED <<workerFrame, stop_event, termPending, wlocals>>

WorkerBusy(w) ==
  /\ wstate[w] = "busy"
  /\ \/ /\ wlocals[w].busy_time > 0
        /\ wstate' = [wstate EXCEPT ![w] = "work"]
     \/ wstate' = [wstate EXCEPT ![w] =
                     IF wlocals[w].sleep_time > 0 THEN "sleeping" ELSE "check"]
  /\ UNCHANGED <<workerFrame, stop_event, termPending, wlocals>>

\* line 66: do_intensive_work() returns
WorkerWork(w) ==
  /\ wstate[w] = "work"
  /\ wstate' = [wstate EXCEPT ![w] = "busy"]
  /\ UNCHANGED <<workerFrame, stop_event, termPending, wlocals>>

\* line 70 returns
WorkerWake(w) ==
  /\ wstate[w] = "sleeping"
  /\ wstate' = [wstate EXCEPT ![w] = "check"]
  /\ UNCHANGED <<workerFrame, stop_event, termPending, wlocals>>

\* The SIGTERM of p.terminate() reaches a worker that is still running.  A
\* forked worker inherited signal_handler (installed at lines 122-123 before
\* p.start()): the handler sets the flag and the worker carries on.  A
\* spawned worker has the default disposition and is killed.  The start
\* method is the platform's; it shows only here, so the case split is made
\* at the first delivery and kept for the rest of the run.
WorkerSigterm(w) ==
  /\ w \in termPending
  /\ wstate[w] \notin Ended
  /\ termPending' = termPending \ {w}
  /\ \E m \in StartMethods :
       /\ startMethod \in {"undetermined", m}
       /\ startMethod' = m
       /\ IF m = "fork"
            THEN stop_event' = TRUE /\ wstate' = wstate
            ELSE /\ wstate' = [wstate EXCEPT ![w] = "killed"]
                 /\ stop_event' = stop_event
  /\ UNCHANGED <<args, coordVars, sigCount, sigInSleep, launchedAfterSet,
                 sleptTicks, drainTicks, wlocals>>

Worker(w) ==
  \/ WorkerStart(w)
  \/ WorkerCheck(w)
  \/ WorkerBusy(w)
  \/ WorkerWork(w)
  \/ WorkerWake(w)
  \/ WorkerSigterm(w)

Coordinator ==
  \/ Validate
  \/ Resolve
  \/ CreateEvent
  \/ InstallHandlers
  \/ Launch
  \/ LaunchDone
  \/ BeginWait
  \/ SleepDone
  \/ PollCheck
  \/ PollWake
  \/ StopAll
  \/ JoinReturn
  \/ AliveCheck
  \/ Terminate

Next ==
  \/ Coordinator
  \/ signal_handler
  \/ Tick
  \/ \E w \in Workers : Worker(w)

Spec == Init /\ [][Next]_vars

\* line 65: the busy loop's condition time.time() - start < busy_time turns
\* false, the worker leaves the loop
WorkerLeaveBusy(w) == WorkerBusy(w) /\ wstate'[w] # "work"

\* Scheduling: the coordinator and every worker process keep being run and
\* time keeps passing, so that the deadline of a busy loop is reached;
\* signals are the environment's and need not arrive.
FairSpec ==
  /\ Spec
  /\ WF_vars(Coordinator)
  /\ WF_vars(Tick)
  /\ \A w \in Workers : WF_vars(Worker(w)) /\ SF_vars(WorkerLeaveBusy(w))

\* The busy/idle split of lines 59-60 over the whole grid of integer
\* percentages: start-up of main() and of the workers, without a stop.
MaxPercent == 100
GridPercentages == 0..MaxPercent

SplitInit ==
  InitWith([percentage : GridPercentages, cores : CoresOptions,
            duration : {<<>>}])

SplitNext ==
  \/ Validate
  \/ Resolve
  \/ CreateEvent
  \/ InstallHandlers
  \/ Launch
  \/ LaunchDone
  \/ \E w \in Workers : WorkerStart(w)

SplitSpec == SplitInit /\ [][SplitNext]_vars

\* ---- measured times -------------------------------------------------------
\* one tick (0.5 s) is five cycle windows
MsPerTick == 5 * cycle_time

\* ticks from the launch to the final message in a run with a duration: the
\* only timed waits of such a run are line 140 and the joins of line 152
RunTicks == sleptTicks + drainTicks

JoinReturned == joinedEnded \cup joinTimedOut
\* the worker has run lines 57-62 (a worker killed before that has not)
Started(w) == wstate[w] \in {"check", "busy", "work", "sleeping", "exited"}

\* ---- lifecycle phases of section 4.3 -------------------------------------
Phase ==
  IF pc = "done" THEN "Stopped"
  ELSE IF pc \in {"join", "alive_check", "terminate"} THEN "Draining"
  ELSE IF pc = "stop_all" THEN "StopRequested"
  ELSE IF pc \in {"running", "sleep_duration", "poll_check", "poll_sleep"}
    THEN "Running"
  ELSE IF pc \in {"exit_error", "crashed"} THEN "Aborted"
  ELSE "Idle"

\* The ordered lifecycle; a configuration error ends it from Idle, and a
\* drain over an empty worker list goes from StopRequested to Stopped.
LifecycleSteps ==
  {<<"Idle", "Running">>, <<"Running", "StopRequested">>,
   <<"StopRequested", "Draining">>, <<"Draining", "Stopped">>,
   <<"Idle", "Aborted">>, <<"StopRequested", "Stopped">>}

Launched == {processes[k] : k \in 1..Len(processes)}
Running(w) == wstate[w] \notin {"unborn", "exited", "killed"}

\* ---- claims --------------------------------------------------------------

\* C1: when main() reports "CPU load generator stopped." (line 156), every
\* launched worker has ended: it left its loop or was killed by terminate().
C1_NoWorkerRunningAtStopped ==
  pc = "done" => \A w \in Launched : wstate[w] \in Ended

\* C2: with a percentage outside [0, 100] main() never gets past the
\* validation: no stop event, no handlers, no worker is ever started, and
\* the exit is the reported configuration error with status 1.
C2_InvalidPercentageNoStart ==
  (args.percentage < 0 \/ args.percentage > 100) =>
    /\ pc \in {"validate", "exit_error"}
    /\ ~eventCreated
    /\ ~handlersInstalled
    /\ processes = <<>>
    /\ \A w \in Workers : wstate[w] = "unborn"
    /\ pc = "exit_error" => (errReported /\ exitStatus = 1)

C2_Witness ==
  /\ args.percentage > 100
  /\ pc = "exit_error"
  /\ exitStatus = 1

\* C3: once resolved, the worker count is the -c value when it is given and
\* positive, the host's cpu count when it is omitted or not positive; it is
\* at least 1.
C3_CoreCountResolution ==
  pc \notin {"validate", "exit_error", "resolve"} =>
    /\ num_cores = IF args.cores # <<>> /\ args.cores[1] > 0
                     THEN args.cores[1] ELSE CpuCount
    /\ num_cores >= 1

\* C4: once a signal has been handled during time.sleep(duration) with time
\* left, the coordinator spends no further time in that sleep.
C4_SignalEndsDurationWait ==
  [][(pc = "sleep_duration" /\ sigInSleep) => timer' = timer]_vars

\* C5: whenever -d is given, the coordinator never waits for a signal in the
\* polling loop and never aborts: it sleeps the duration and sets the flag.
C5_DurationGivenStopsByItself ==
  args.duration # <<>> => pc \notin {"poll_check", "poll_sleep", "crashed"}

\* C6: main() never finishes or aborts while a launched worker is still
\* looping with the stop flag unset.
C6_NoExitWithLoopingWorkers ==
  pc \in Terminal => ~(\E w \in Launched : Running(w) /\ ~stop_event)

\* C7: the stop flag starts unset and, once set, stays set in every step.
C7_StopFlagMonotonic ==
  ~stop_event /\ [][stop_event => stop_event']_vars

C7_Witness ==
  /\ stop_event
  /\ sigCount >= 2
  /\ pc = "done"
  /\ \E w \in Launched : wstate[w] = "exited"

\* C8: a signal handled by the coordinator leaves the flag set and changes
\* nothing else of the coordinator or the workers (no crash, no jump); with
\* the flag already set it changes nothing but the count of notices, and a
\* finished run ends in the same state however many signals were handled.
C8_SignalIdempotent ==
  /\ [][sigCount' # sigCount =>
          /\ stop_event'
          /\ UNCHANGED <<args, startMethod, coordVars, wstate,
                         termPending,
                 wlocals, launchedAfterSet, sleptTicks, drainTicks>>]_vars
  /\ [](pc = "done" =>
          /\ stop_event
          /\ exitStatus = 0
          /\ i = Len(processes) + 1)

C8_Witness ==
  /\ sigCount >= 2
  /\ pc = "done"
  /\ processes # <<>>

\* C9: terminate() is called on a worker only after its join has returned
\* with the whole timeout used up and is_alive() was true, on every worker
\* for which is_alive() was true, and never on a worker that had ended when
\* its join returned.
C9_TerminateOnlyAfterGrace ==
  /\ termSent \subseteq aliveAtCheck
  /\ termSent \subseteq joinTimedOut
  /\ termSent \cap joinedEnded = {}
  /\ \A w \in termSent : w < i
  /\ \A w \in aliveAtCheck : w \notin termSent => (pc = "terminate" /\ i = w)
  /\ \A w \in Launched : (w < i /\ w \notin aliveAtCheck) => wstate[w] \in Ended

C9_Witness ==
  /\ pc = "done"
  /\ termSent # {}
  /\ joinedEnded # {}

\* C10: the coordinator moves only along Idle -> Running -> StopRequested ->
\* Draining -> Stopped; the stop flag becomes set only from Running; Running
\* has all resolved workers launched, the join loop runs with the flag set,
\* and Stopped has the join loop past every worker.
C10_LifecycleOrder ==
  /\ [][/\ Phase' # Phase => <<Phase, Phase'>> \in LifecycleSteps
        /\ (~stop_event /\ stop_event') => Phase = "Running"]_vars
  /\ [](Phase = "Running" => Len(processes) = Max(num_cores, 0))
  /\ [](Phase = "Draining" => stop_event)
  /\ [](Phase = "Stopped" => i = Len(processes) + 1)

\* C11: with -c C, C >= 1, exactly C workers are launched, each once, and
\* each is given the command line's percentage.
C11_ExactlyCWorkers ==
  (args.cores # <<>> /\ args.cores[1] >= 1) =>
    /\ Len(processes) <= args.cores[1]
    /\ \A k \in 1..Len(processes) : processes[k] = k
    /\ Launched = {w \in Workers : wstate[w] # "unborn"}
    /\ Phase \in {"Running", "StopRequested", "Draining", "Stopped"} =>
         Cardinality(Launched) = args.cores[1]
    /\ \A w \in Launched : wlocals[w].target_percent = args.percentage

C11_Witness ==
  /\ args.cores # <<>>
  /\ args.cores[1] >= 1
  /\ args.cores[1] <= CpuCount
  /\ pc = "sleep_duration"
  /\ Cardinality(Launched) = args.cores[1]
  /\ \A w \in Launched : Started(w)

\* C12: a finished run with duration D took at least D and at most D plus
\* one grace period plus one cycle window.
C12_RunTimeBounds ==
  (pc = "done" /\ Truthy(args.duration)) =>
    /\ RunTicks >= args.duration[1]
    /\ RunTicks * MsPerTick <=
         (args.duration[1] + JoinTimeout) * MsPerTick + cycle_time

\* C13: once a signal has been handled while a worker is running, the run
\* eventually ends stopped: every worker ended, final message, status 0.
C13_SignalLeadsToStopped ==
  (sigCount > 0 /\ \E w \in Launched : Running(w)) ~>
    (pc = "done" /\ exitStatus = 0 /\ \A w \in Launched : wstate[w] \in Ended)

\* C14: every worker that has computed its split has busy_time >= 0,
\* sleep_time >= 0 and busy_time + sleep_time = cycle_time.
C14_SplitSumsToWindow ==
  \A w \in Workers : Started(w) =>
    /\ wlocals[w].busy_time >= 0
    /\ wlocals[w].sleep_time >= 0
    /\ wlocals[w].busy_time + wlocals[w].sleep_time = cycle_time

C14_Witness ==
  \E w \in Workers :
    /\ Started(w)
    /\ wlocals[w].target_percent = 37
    /\ wlocals[w].busy_time = 37
    /\ wlocals[w].sleep_time = 63

\* C15: with percentage 0 no worker is ever inside do_intensive_work() and
\* every worker's sleep_time is the whole cycle window.
C15_ZeroPercentNeverWorks ==
  args.percentage = 0 =>
    \A w \in Workers :
      /\ wstate[w] # "work"
      /\ Started(w) => wlocals[w].sleep_time = cycle_time

C15_Witness ==
  /\ args.percentage = 0
  /\ stop_event
  /\ \E w \in Workers : wstate[w] = "sleeping"
  /\ \E w \in Workers : wstate[w] = "exited"

\* C16: with percentage 100 every worker's sleep_time is <= 0 and no
\* worker is ever in the sleep of line 70.
C16_FullPercentNeverSleeps ==
  args.percentage = 100 =>
    \A w \in Workers :
      /\ wstate[w] # "sleeping"
      /\ Started(w) => wlocals[w].sleep_time <= 0

C16_Witness ==
  /\ args.percentage = 100
  /\ \E w \in Workers : wstate[w] = "check"
  /\ \E w \in Workers : wstate[w] = "work"

\* C17: once the flag is set a worker only finishes the cycle it is in (the
\* rest of its busy loop, then its sleep), and its next test of the flag
\* ends it; it never begins a cycle.  (A worker the coordinator starts
\* after the set is at its first test.)
StepsAfterSet ==
  {<<"start", "exited">>, <<"check", "exited">>, <<"busy", "work">>,
   <<"work", "busy">>, <<"busy", "sleeping">>, <<"busy", "check">>,
   <<"sleeping", "check">>}

C17_NoCycleBeginsAfterSet ==
  [][stop_event =>
       \A w \in Workers :
         \/ wstate'[w] = wstate[w]
         \/ wstate[w] = "unborn" /\ wstate'[w] = "start"
         \/ wstate'[w] = "killed"
         \/ <<wstate[w], wstate'[w]>> \in StepsAfterSet]_vars

C17_Witness ==
  /\ stop_event
  /\ \E w \in Workers : wstate[w] = "work"
  /\ \E w \in Workers : wstate[w] = "exited"

\* C18: a worker has left its loop by itself only if the flag is set.
C18_ExitOnlyWhenSet ==
  \A w \in Workers : wstate[w] = "exited" => stop_event

C18_Witness ==
  /\ pc = "done"
  /\ sigCount = 0
  /\ \A w \in Launched : wstate[w] = "exited"
  /\ Len(processes) >= 2

\* C19: a worker whose first test of the flag finds it set ends without
\* working or sleeping, as does every worker started with the flag set; the
\* coordinator still launches all workers and joins each of them.
C19_EarlyStopStillLaunchesAndJoins ==
  /\ [][\A w \in Workers :
          (wstate[w] = "start" /\ stop_event /\ wstate'[w] # "start") =>
            wstate'[w] \in Ended]_vars
  /\ [](\A w \in launchedAfterSet : wstate[w] \in {"start", "exited", "killed"})
  /\ [](Phase \in {"Running", "StopRequested", "Draining", "Stopped"} =>
          Len(processes) = Max(num_cores, 0))
  /\ [](pc = "done" => Launched \subseteq JoinReturned)

C19_Witness ==
  /\ pc = "done"
  /\ Len(processes) >= 2
  /\ \E w \in launchedAfterSet : wstate[w] = "exited"
  /\ launchedAfterSet # Launched

\* C20: the join loop handles the workers one at a time in launch order:
\* every worker before the current one has had its join returned and, if it
\* was found alive, its terminate sent; no later worker has been touched;
\* and the joins together take at most one grace period per worker.
C20_DrainIsSequential ==
  Phase \in {"Draining", "Stopped"} =>
    /\ i \in 1..(Len(processes) + 1)
    /\ \A k \in 1..Len(processes) :
         /\ processes[k] = k
         /\ k < i => /\ k \in JoinReturned
                     /\ k \in aliveAtCheck => k \in termSent
         /\ k > i => k \notin (JoinReturned \cup aliveAtCheck \cup termSent)
    /\ drainTicks <= Len(processes) * JoinTimeout

C20_Witness ==
  /\ pc = "done"
  /\ Len(processes) >= 2
  /\ drainTicks = Len(processes) * JoinTimeout
  /\ drainTicks > JoinTimeout

TypeOK ==
  /\ pc \in {"validate", "exit_error", "resolve", "create_event",
             "install_handlers", "launch", "running", "sleep_duration",
             "poll_check", "poll_sleep", "stop_all", "join", "alive_check",
             "terminate", "crashed", "done"}
  /\ wstate \in [Workers -> {"unborn", "start", "check", "busy", "work", "sleeping",
                             "exited", "killed"}]
  /\ timer \in 0..Max(JoinTimeout, MaxDuration)
  /\ sigCount \in 0..MaxSignals
  /\ exitStatus \in {-1, 0, 1}
====
